---- MODULE Spec2Model ----
(***************************************************************************)
(* Model of the non-empty-vec crate (src/src/lib.rs): the NonEmpty<T>      *)
(* wrapper around Vec<T> and the DrainFilter cursor.                       *)
(*                                                                         *)
(* Buffer slots are addressed 0-based, as in the source; the TLA+ sequence *)
(* `vec` stores slot k at position k+1.  ptr::read copies the bits of a    *)
(* slot and leaves the memory as it is, so a moved-out slot keeps its old  *)
(* bits; the ghost variable `uninit` records which slots are logically     *)
(* moved out and `faults` every raw read of a moved-out slot and every raw  *)
(* write over a live one.  The predicate takes &mut T: an element v that    *)
(* the predicate has mutated is written -v.                                 *)
(***************************************************************************)
EXTENDS Integers, Sequences, FiniteSets, TLC

\* ---- bounds of the model ----
\* longest Vec the model builds
MaxLen == 4
\* element values of the containers built through the public constructors
MaxVal == 2

\* T, the element type: the code never inspects an element, it only moves it
Vals == 1..(IF MaxVal > MaxLen THEN MaxVal ELSE MaxLen)

\* the values the constructors are called with
InVals == 1..MaxVal

SeqsUpTo(n) == UNION {[1..k -> InVals] : k \in 0..n}

VARIABLES
    vec,      \* NonEmpty.0, the wrapped Vec<T>: its len() initialised slots
    phase,    \* "none": no container yet; "idle": container usable; "cursor": borrowed by a DrainFilter
    df,       \* the DrainFilter's fields left, i, r, right, old_len
    f,        \* the DrainFilter's predicate, by element value
    mu,       \* the elements the predicate mutates before it answers
    uninit,   \* ghost: slots of the buffer that are logically moved out
    faults,   \* ghost: <<"read", k>> for a read of moved-out slot k, <<"write", k>> for a write over live slot k
    calls,    \* ghost: predicate invocations of the current cursor, <<slot, value>> in call order
    yielded,  \* ghost: elements the current cursor or drain has handed to the caller, in order
    hist,     \* ghost: how the current cursor was driven
    pre,      \* ghost: the Vec before the last operation (at cursor creation while a cursor lives)
    op,       \* ghost: name of the last operation
    arg,      \* ghost: arguments of the last operation
    ret,      \* ghost: Option<T> returned by the last operation, <<>> for None and <<v>> for Some(v)
    outcome   \* ghost: "ok", "err_empty", "panic_leave", "panic_std", "panic_front", "panic_back", "panic_f"

vars == <<vec, phase, df, f, mu, uninit, faults, calls, yielded, hist, pre, op, arg, ret, outcome>>

\* ---- values ----
None == <<>>
Some(v) == <<v>>

Included(n) == [kind |-> "Included", v |-> n]
Excluded(n) == [kind |-> "Excluded", v |-> n]
Unbounded == [kind |-> "Unbounded", v |-> 0]

\* the bounds a caller may pass to drain on a Vec of length n: every kind and
\* every position up to n (Included(n) as an end and Excluded(n) as a start
\* lie past the end of the Vec)
Bounds(n) == {Included(k) : k \in 0..n} \cup {Excluded(k) : k \in 0..n} \cup {Unbounded}

NoArg == [v |-> 0, xs |-> <<>>, sb |-> Unbounded, eb |-> Unbounded]
NoCursor == [left |-> 0, i |-> 0, r |-> 0, right |-> 0, old_len |-> 0]
NoPred == [v \in Vals |-> FALSE]
\* unwound: Some(e) once the predicate has panicked while classifying e;
\* calls0, span0: Len(calls) and r - i on entry to the running call or drop;
\* n1: iterations of the first loop of drop; back0: old_len - right on entry
\* to its second loop; n2: iterations of the second loop
NoHist == [usedFront |-> FALSE, usedBack |-> FALSE, noneFront |-> FALSE, noneBack |-> FALSE, dropped |-> FALSE, unwound |-> None,
           calls0 |-> 0, span0 |-> 0, n1 |-> 0, back0 |-> 0, n2 |-> 0]

\* ---- NonEmpty: read accessors ----
len(v) == Len(v)

is_empty(v) == FALSE

\* get_unchecked(k): defined only when slot k exists
first(v) == v[0 + 1]

last(v) == LET k == len(v) - 1 IN v[k + 1]

\* ---- NonEmpty: pure parts of the mutating operations ----
\* result of pop: the new Vec and the returned Option
\* pop with the guard off by one: it also pops the only element
pop_last_too(v) ==
    IF Len(v) < 1
    THEN [vec |-> v, ret |-> None]
    ELSE [vec |-> SubSeq(v, 1, Len(v) - 1), ret |-> Some(v[Len(v)])]

pop(v) ==
    IF Len(v) <= 1
    THEN [vec |-> v, ret |-> None]
    ELSE [vec |-> SubSeq(v, 1, Len(v) - 1), ret |-> Some(v[Len(v)])]

push(v, x) == Append(v, x)

\* Vec::truncate: no effect when n is not below the length
truncate(v, n) == IF n < Len(v) THEN SubSeq(v, 1, n) ELSE v

\* try_from without the emptiness test
try_from_unchecked(xs) == TRUE

try_from_ok(xs) == ~(xs = <<>>)

from_vec_t(xs, x) == Append(xs, x)

from_t_vec(x, xs) == <<x>> \o xs

\* ---- NonEmpty::drain ----
\* leftover_start with the Included arm off by one
leftover_start_past_one(sb) ==
    CASE sb.kind = "Included" -> sb.v > 1
      [] sb.kind = "Excluded" -> TRUE
      [] OTHER -> FALSE

leftover_start(sb) ==
    CASE sb.kind = "Included" -> sb.v > 0
      [] sb.kind = "Excluded" -> TRUE
      [] OTHER -> FALSE

\* leftover_end with the Excluded arm accepting end = len
leftover_end_full_excluded(eb, n) ==
    CASE eb.kind = "Excluded" -> eb.v <= n
      [] eb.kind = "Included" -> eb.v < n - 1
      [] OTHER -> FALSE

\* leftover_end with the Included arm accepting end = len - 1
leftover_end_full_included(eb, n) ==
    CASE eb.kind = "Excluded" -> eb.v < n
      [] eb.kind = "Included" -> eb.v < n
      [] OTHER -> FALSE

leftover_end(eb, n) ==
    CASE eb.kind = "Excluded" -> eb.v < n
      [] eb.kind = "Included" -> eb.v < n - 1
      [] OTHER -> FALSE

drain_panics(sb, eb, n) ==
    IF ~leftover_start(sb) THEN ~leftover_end(eb, n) ELSE FALSE

\* Vec::drain(range), called on line 298: the half-open range it removes
range_start(sb) ==
    CASE sb.kind = "Included" -> sb.v
      [] sb.kind = "Excluded" -> sb.v + 1
      [] OTHER -> 0

range_end(eb, n) ==
    CASE eb.kind = "Included" -> eb.v + 1
      [] eb.kind = "Excluded" -> eb.v
      [] OTHER -> n

\* Vec::drain panics on start > end and on end > len, before it moves anything
vec_drain_panics(sb, eb, n) ==
    \/ range_start(sb) > range_end(eb, n)
    \/ range_end(eb, n) > n

vec_drain_removed(v, sb, eb) == SubSeq(v, range_start(sb) + 1, range_end(eb, Len(v)))

vec_drain_rest(v, sb, eb) ==
    SubSeq(v, 1, range_start(sb)) \o SubSeq(v, range_end(eb, Len(v)) + 1, Len(v))

\* ---- DrainFilter ----
\* The cursor together with the buffer it points into:
\* [items, left, i, r, right, old_len, uninit, faults, calls, panic]
Read(items, k) == items[k + 1]

\* what a raw read of slot k / a raw write to slot k adds to the faults
ReadFault(m, k) == IF k \in m.uninit THEN {<<"read", k>>} ELSE {}

WriteFault(m, k) == IF k \in m.uninit THEN {} ELSE {<<"write", k>>}

\* (self.f)(&mut item): the element as the predicate leaves it
Mutated(v) == 0 - v

call_f(g, item) == IF g[item] THEN Mutated(item) ELSE item

\* the element a value was made from
Id(x) == IF x < 0 THEN 0 - x ELSE x

Write(items, k, item) == [items EXCEPT ![k + 1] = item]

drain_filter_new(v) ==
    [left |-> 0, i |-> 0, r |-> Len(v), right |-> Len(v), old_len |-> Len(v)]

\* pop_front that also takes the last unsearched element
pop_front_to_empty(m) ==
    IF m.r - m.i > 0
    THEN [m |-> [m EXCEPT !.i = m.i + 1, !.uninit = @ \cup {m.i},
                        !.faults = @ \cup ReadFault(m, m.i)],
          item |-> Some(Read(m.items, m.i))]
    ELSE [m |-> m, item |-> None]

\* pop_front that forgets `self.i += 1`
pop_front_no_advance(m) ==
    IF m.r - m.i > 1
    THEN [m |-> [m EXCEPT !.uninit = @ \cup {m.i},
                        !.faults = @ \cup ReadFault(m, m.i)],
          item |-> Some(Read(m.items, m.i))]
    ELSE [m |-> m, item |-> None]

pop_front(m) ==
    IF m.r - m.i > 1
    THEN [m |-> [m EXCEPT !.i = m.i + 1, !.uninit = @ \cup {m.i},
                        !.faults = @ \cup ReadFault(m, m.i)],
          item |-> Some(Read(m.items, m.i))]
    ELSE [m |-> m, item |-> None]

\* pop_back that also takes the last unsearched element
pop_back_to_empty(m) ==
    IF m.r - m.i > 0
    THEN [m |-> [m EXCEPT !.r = m.r - 1, !.uninit = @ \cup {m.r - 1},
                        !.faults = @ \cup ReadFault(m, m.r - 1)],
          item |-> Some(Read(m.items, m.r - 1))]
    ELSE [m |-> m, item |-> None]

\* pop_back whose guard forgets the front cursor: `self.r > 1`
pop_back_ignores_i(m) ==
    IF m.r > 1
    THEN [m |-> [m EXCEPT !.r = m.r - 1, !.uninit = @ \cup {m.r - 1},
                        !.faults = @ \cup ReadFault(m, m.r - 1)],
          item |-> Some(Read(m.items, m.r - 1))]
    ELSE [m |-> m, item |-> None]

pop_back(m) ==
    IF m.r - m.i > 1
    THEN [m |-> [m EXCEPT !.r = m.r - 1, !.uninit = @ \cup {m.r - 1},
                        !.faults = @ \cup ReadFault(m, m.r - 1)],
          item |-> Some(Read(m.items, m.r - 1))]
    ELSE [m |-> m, item |-> None]

\* insert_front that writes to slot i instead of slot left
insert_front_at_i(m, item) ==
    IF m.left >= m.i
    THEN [m EXCEPT !.panic = "panic_front"]
    ELSE [m EXCEPT !.items = Write(m.items, m.i, item),
                   !.uninit = @ \ {m.i},
                   !.faults = @ \cup WriteFault(m, m.i),
                   !.left = m.left + 1]

insert_front(m, item) ==
    IF m.left >= m.i
    THEN [m EXCEPT !.panic = "panic_front"]
    ELSE [m EXCEPT !.items = Write(m.items, m.left, item),
                   !.uninit = @ \ {m.left},
                   !.faults = @ \cup WriteFault(m, m.left),
                   !.left = m.left + 1]

\* insert_back that forgets `self.right -= 1`
insert_back_keeps_right(m, item) ==
    IF m.right <= m.r
    THEN [m EXCEPT !.panic = "panic_back"]
    ELSE [m EXCEPT !.items = Write(m.items, m.right - 1, item),
                   !.uninit = @ \ {m.right - 1},
                   !.faults = @ \cup WriteFault(m, m.right - 1)]

insert_back(m, item) ==
    IF m.right <= m.r
    THEN [m EXCEPT !.panic = "panic_back"]
    ELSE [m EXCEPT !.items = Write(m.items, m.right - 1, item),
                   !.uninit = @ \ {m.right - 1},
                   !.faults = @ \cup WriteFault(m, m.right - 1),
                   !.right = m.right - 1]

\* Iterator::next: the loop of lines 489-500 under a predicate that answers
\* p[item] and mutates the elements of g
RECURSIVE next(_, _, _)
next(m, p, g) ==
    LET popped == pop_front(m) IN
    IF popped.item = None
    THEN [m |-> popped.m, ret |-> None]
    ELSE LET item == popped.item[1]
             m1 == [popped.m EXCEPT !.calls = Append(@, <<m.i, item>>)]
         IN  IF p[item]
             THEN [m |-> m1, ret |-> Some(call_f(g, item))]
             ELSE LET m2 == insert_front(m1, call_f(g, item)) IN
                  IF m2.panic = "ok" THEN next(m2, p, g) ELSE [m |-> m2, ret |-> None]

\* DoubleEndedIterator::next_back: the loop of lines 513-520
RECURSIVE next_back(_, _, _)
next_back(m, p, g) ==
    LET popped == pop_back(m) IN
    IF popped.item = None
    THEN [m |-> popped.m, ret |-> None]
    ELSE LET item == popped.item[1]
             m1 == [popped.m EXCEPT !.calls = Append(@, <<m.r - 1, item>>)]
         IN  IF p[item]
             THEN [m |-> m1, ret |-> Some(call_f(g, item))]
             ELSE LET m2 == insert_back(m1, call_f(g, item)) IN
                  IF m2.panic = "ok" THEN next_back(m2, p, g) ELSE [m |-> m2, ret |-> None]

\* Iterator::next when the predicate panics at its (k+1)-th invocation of
\* this call (line 493): the k elements before were kept, the popped `item`
\* is a local of next and is dropped by the unwinding, its slot stays
\* moved-out.  panic = "ok" in the result: no predicate invocation panicked.
RECURSIVE next_unwind(_, _, _, _)
next_unwind(m, p, g, k) ==
    LET popped == pop_front(m) IN
    IF popped.item = None
    THEN [m |-> popped.m, ret |-> None, unwound |-> None]
    ELSE LET item == popped.item[1]
             m1 == [popped.m EXCEPT !.calls = Append(@, <<m.i, item>>)]
         IN  IF k = 0
             THEN [m |-> [m1 EXCEPT !.panic = "panic_f"], ret |-> None, unwound |-> Some(item)]
             ELSE IF p[item]
             THEN [m |-> m1, ret |-> Some(call_f(g, item)), unwound |-> None]
             ELSE LET m2 == insert_front(m1, call_f(g, item)) IN
                  IF m2.panic = "ok" THEN next_unwind(m2, p, g, k - 1)
                  ELSE [m |-> m2, ret |-> None, unwound |-> None]

\* DoubleEndedIterator::next_back when the predicate panics at its (k+1)-th
\* invocation of this call (line 515)
RECURSIVE next_back_unwind(_, _, _, _)
next_back_unwind(m, p, g, k) ==
    LET popped == pop_back(m) IN
    IF popped.item = None
    THEN [m |-> popped.m, ret |-> None, unwound |-> None]
    ELSE LET item == popped.item[1]
             m1 == [popped.m EXCEPT !.calls = Append(@, <<m.r - 1, item>>)]
         IN  IF k = 0
             THEN [m |-> [m1 EXCEPT !.panic = "panic_f"], ret |-> None, unwound |-> Some(item)]
             ELSE IF p[item]
             THEN [m |-> m1, ret |-> Some(call_f(g, item)), unwound |-> None]
             ELSE LET m2 == insert_back(m1, call_f(g, item)) IN
                  IF m2.panic = "ok" THEN next_back_unwind(m2, p, g, k - 1)
                  ELSE [m |-> m2, ret |-> None, unwound |-> None]

\* size_hint that reserves two elements instead of one
size_hint_reserves_two(m) == [lo |-> 0, hi |-> m.r - m.i - 2]

\* Iterator::size_hint: (0, Some(r - i - 1)); the subtraction is on usize, so
\* a negative hi here is an underflow there
size_hint(m) == [lo |-> 0, hi |-> m.r - m.i - 1]

\* Drop::drop, first loop (lines 462-464)
RECURSIVE drop_unsearched(_)
drop_unsearched(m) ==
    LET popped == pop_front(m) IN
    IF popped.item = None
    THEN popped.m
    ELSE LET m2 == insert_front(popped.m, popped.item[1]) IN
         IF m2.panic = "ok" THEN drop_unsearched(m2) ELSE m2

\* Drop::drop, second loop (lines 466-478)
RECURSIVE drop_back_items(_)
drop_back_items(m) ==
    IF m.right < m.old_len
    THEN LET item == Read(m.items, m.right - 1)
             m1 == [m EXCEPT !.uninit = @ \cup {m.right - 1},
                             !.faults = @ \cup ReadFault(m, m.right - 1),
                             !.right = m.right + 1]
             m2 == [m1 EXCEPT !.items = Write(m1.items, m1.left, item),
                              !.uninit = @ \ {m1.left},
                              !.faults = @ \cup WriteFault(m1, m1.left),
                              !.left = m1.left + 1]
         IN  drop_back_items(m2)
    ELSE m

drop(m) ==
    LET m1 == drop_unsearched(m) IN
    IF m1.panic = "ok" THEN drop_back_items(m1) ELSE m1

\* ---- the loops, one iteration at a time ----
\* one iteration of the loop of Iterator::next (lines 489-500); done: the
\* call returns
next_iter(m, p, g) ==
    LET popped == pop_front(m) IN
    IF popped.item = None
    THEN [m |-> popped.m, ret |-> None, done |-> TRUE]
    ELSE LET item == popped.item[1]
             m1 == [popped.m EXCEPT !.calls = Append(@, <<m.i, item>>)]
         IN  IF p[item]
             THEN [m |-> m1, ret |-> Some(call_f(g, item)), done |-> TRUE]
             ELSE LET m2 == insert_front(m1, call_f(g, item)) IN
                  [m |-> m2, ret |-> None, done |-> m2.panic # "ok"]

\* one iteration of the loop of next_back (lines 513-520)
next_back_iter(m, p, g) ==
    LET popped == pop_back(m) IN
    IF popped.item = None
    THEN [m |-> popped.m, ret |-> None, done |-> TRUE]
    ELSE LET item == popped.item[1]
             m1 == [popped.m EXCEPT !.calls = Append(@, <<m.r - 1, item>>)]
         IN  IF p[item]
             THEN [m |-> m1, ret |-> Some(call_f(g, item)), done |-> TRUE]
             ELSE LET m2 == insert_back(m1, call_f(g, item)) IN
                  [m |-> m2, ret |-> None, done |-> m2.panic # "ok"]

\* one test-and-body of the first loop of drop (lines 462-464); done: the
\* loop is left
drop_unsearched_iter(m) ==
    LET popped == pop_front(m) IN
    IF popped.item = None
    THEN [m |-> popped.m, done |-> TRUE]
    ELSE [m |-> insert_front(popped.m, popped.item[1]), done |-> FALSE]

\* a second loop of drop that runs while right <= old_len
drop_back_items_cond_inclusive(m) == m.right <= m.old_len

\* the condition of the second loop of drop (line 466)
drop_back_items_cond(m) == m.right < m.old_len

\* the body of the second loop of drop (lines 469-477)
drop_back_items_iter(m) ==
    LET item == Read(m.items, m.right - 1)
        m1 == [m EXCEPT !.uninit = @ \cup {m.right - 1},
                        !.faults = @ \cup ReadFault(m, m.right - 1),
                        !.right = m.right + 1]
    IN  [m1 EXCEPT !.items = Write(m1.items, m1.left, item),
                   !.uninit = @ \ {m1.left},
                   !.faults = @ \cup WriteFault(m1, m1.left),
                   !.left = m1.left + 1]

\* a drop that ends with set_len(left)
vec_len_set_to_left(m) == m.left

\* The length of the Vec once the cursor is gone.  The cursor holds only the
\* raw pointer `items` (line 353, 382) and drop never writes the Vec's length,
\* so the Vec keeps the length it had when the cursor was created.
vec_len_after_drop(m) == Len(m.items)

\* ---- the state machine ----
Init ==
    /\ vec = <<>>
    /\ phase = "none"
    /\ df = NoCursor
    /\ f = NoPred
    /\ mu = NoPred
    /\ uninit = {}
    /\ faults = {}
    /\ calls = <<>>
    /\ yielded = <<>>
    /\ hist = NoHist
    /\ pre = <<>>
    /\ op = "init"
    /\ arg = NoArg
    /\ ret = None
    /\ outcome = "ok"

\* what every operation outside a cursor's lifetime records
Done(name, a, newvec, newphase, res, out, ys) ==
    /\ op' = name
    /\ arg' = a
    /\ pre' = vec
    /\ vec' = newvec
    /\ phase' = newphase
    /\ ret' = res
    /\ outcome' = out
    /\ yielded' = ys
    /\ df' = NoCursor
    /\ f' = NoPred
    /\ mu' = NoPred
    /\ uninit' = {}
    /\ faults' = {}
    /\ calls' = <<>>
    /\ hist' = NoHist

New ==
    /\ phase = "none"
    /\ \E v \in InVals :
         Done("new", [NoArg EXCEPT !.v = v], <<v>>, "idle", None, "ok", <<>>)

TryFrom ==
    /\ phase = "none"
    /\ \E xs \in SeqsUpTo(MaxLen) :
         IF try_from_ok(xs)
         THEN Done("try_from", [NoArg EXCEPT !.xs = xs], xs, "idle", None, "ok", <<>>)
         ELSE Done("try_from", [NoArg EXCEPT !.xs = xs], <<>>, "none", None, "err_empty", <<>>)

FromVecT ==
    /\ phase = "none"
    /\ \E xs \in SeqsUpTo(MaxLen - 1), x \in InVals :
         Done("from_vec_t", [NoArg EXCEPT !.xs = xs, !.v = x], from_vec_t(xs, x), "idle", None, "ok", <<>>)

FromTVec ==
    /\ phase = "none"
    /\ \E xs \in SeqsUpTo(MaxLen - 1), x \in InVals :
         Done("from_t_vec", [NoArg EXCEPT !.xs = xs, !.v = x], from_t_vec(x, xs), "idle", None, "ok", <<>>)

Push ==
    /\ phase = "idle"
    /\ Len(vec) < MaxLen
    /\ \E v \in InVals :
         Done("push", [NoArg EXCEPT !.v = v], push(vec, v), "idle", None, "ok", <<>>)

Pop ==
    /\ phase = "idle"
    /\ Done("pop", NoArg, pop(vec).vec, "idle", pop(vec).ret, "ok", <<>>)

Truncate ==
    /\ phase = "idle"
    /\ \E n \in 1..(MaxLen + 1) :
         Done("truncate", [NoArg EXCEPT !.v = n], truncate(vec, n), "idle", None, "ok", <<>>)

\* drain(range) with the returned std::vec::Drain consumed to the end; a Drain
\* dropped earlier hands out a prefix of the same elements and its drop leaves
\* the same Vec.
Drain ==
    /\ phase = "idle"
    /\ \E sb \in Bounds(Len(vec)), eb \in Bounds(Len(vec)) :
         LET a == [NoArg EXCEPT !.sb = sb, !.eb = eb] IN
         IF drain_panics(sb, eb, len(vec))
         THEN Done("drain", a, vec, "idle", None, "panic_leave", <<>>)
         ELSE IF vec_drain_panics(sb, eb, Len(vec))
         THEN Done("drain", a, vec, "idle", None, "panic_std", <<>>)
         ELSE Done("drain", a, vec_drain_rest(vec, sb, eb), "idle", None, "ok",
                   vec_drain_removed(vec, sb, eb))

\* the cursor and the buffer, as the pure operators take them
Machine ==
    [items |-> vec, left |-> df.left, i |-> df.i, r |-> df.r, right |-> df.right,
     old_len |-> df.old_len, uninit |-> uninit, faults |-> faults, calls |-> calls,
     panic |-> "ok"]

Fields(m) ==
    [left |-> m.left, i |-> m.i, r |-> m.r, right |-> m.right, old_len |-> m.old_len]

\* NonEmpty::drain_filter(f): borrows the container, nothing else happens (lazy)
DrainFilter ==
    /\ phase = "idle"
    /\ ~hist.dropped
    /\ \E p \in [Vals -> BOOLEAN], g \in [Vals -> BOOLEAN] :
         /\ f' = p
         /\ mu' = g
         /\ df' = drain_filter_new(vec)
         /\ phase' = "cursor"
         /\ op' = "drain_filter"
         /\ arg' = NoArg
         /\ pre' = vec
         /\ ret' = None
         /\ outcome' = "ok"
         /\ yielded' = <<>>
         /\ calls' = <<>>
         /\ uninit' = {}
         /\ faults' = {}
         /\ hist' = NoHist
         /\ UNCHANGED vec

CallNext ==
    /\ phase = "cursor"
    /\ outcome = "ok"
    /\ LET res == next(Machine, f, mu) IN
         /\ vec' = res.m.items
         /\ df' = Fields(res.m)
         /\ uninit' = res.m.uninit
         /\ faults' = res.m.faults
         /\ calls' = res.m.calls
         /\ ret' = res.ret
         /\ outcome' = res.m.panic
         /\ yielded' = yielded \o res.ret
         /\ hist' = [hist EXCEPT !.usedFront = TRUE, !.noneFront = @ \/ (res.ret = None)]
         /\ op' = "next"
         /\ UNCHANGED <<phase, f, mu, pre, arg>>

CallNextBack ==
    /\ phase = "cursor"
    /\ outcome = "ok"
    /\ LET res == next_back(Machine, f, mu) IN
         /\ vec' = res.m.items
         /\ df' = Fields(res.m)
         /\ uninit' = res.m.uninit
         /\ faults' = res.m.faults
         /\ calls' = res.m.calls
         /\ ret' = res.ret
         /\ outcome' = res.m.panic
         /\ yielded' = yielded \o res.ret
         /\ hist' = [hist EXCEPT !.usedBack = TRUE, !.noneBack = @ \/ (res.ret = None)]
         /\ op' = "next_back"
         /\ UNCHANGED <<phase, f, mu, pre, arg>>

\* next() in which the predicate panics: the call does not return, the
\* unwinding leaves the cursor to DropCursor
CallNextUnwind ==
    /\ phase = "cursor"
    /\ outcome = "ok"
    /\ \E k \in 0..MaxLen :
         LET res == next_unwind(Machine, f, mu, k) IN
         /\ res.unwound # None
         /\ vec' = res.m.items
         /\ df' = Fields(res.m)
         /\ uninit' = res.m.uninit
         /\ faults' = res.m.faults
         /\ calls' = res.m.calls
         /\ ret' = None
         /\ outcome' = res.m.panic
         /\ hist' = [hist EXCEPT !.usedFront = TRUE, !.unwound = res.unwound]
         /\ op' = "next"
         /\ UNCHANGED <<phase, f, mu, pre, arg, yielded>>

\* next_back() in which the predicate panics
CallNextBackUnwind ==
    /\ phase = "cursor"
    /\ outcome = "ok"
    /\ \E k \in 0..MaxLen :
         LET res == next_back_unwind(Machine, f, mu, k) IN
         /\ res.unwound # None
         /\ vec' = res.m.items
         /\ df' = Fields(res.m)
         /\ uninit' = res.m.uninit
         /\ faults' = res.m.faults
         /\ calls' = res.m.calls
         /\ ret' = None
         /\ outcome' = res.m.panic
         /\ hist' = [hist EXCEPT !.usedBack = TRUE, !.unwound = res.unwound]
         /\ op' = "next_back"
         /\ UNCHANGED <<phase, f, mu, pre, arg, yielded>>

\* the cursor goes out of scope: Drop::drop runs and the borrow ends
DropCursor ==
    /\ phase = "cursor"
    /\ LET m == drop(Machine) IN
         /\ vec' = SubSeq(m.items, 1, vec_len_after_drop(m))
         /\ df' = Fields(m)
         /\ uninit' = m.uninit
         /\ faults' = m.faults
         /\ calls' = m.calls
         /\ ret' = None
         /\ outcome' = m.panic
         /\ hist' = [hist EXCEPT !.dropped = TRUE]
         /\ op' = "drop"
         /\ phase' = "idle"
         /\ UNCHANGED <<f, mu, pre, arg, yielded>>

\* ---- the container API ----
Next ==
    \/ New
    \/ TryFrom
    \/ FromVecT
    \/ FromTVec
    \/ Push
    \/ Pop
    \/ Truncate
    \/ Drain

Spec == Init /\ [][Next]_vars

\* ---- the DrainFilter cursor ----
\* A container of n distinct elements, as try_from builds it.  The cursor never
\* inspects an element, so element k stands for "the element first stored in
\* slot k-1" and the predicate is a function of the element.
Iota(n) == [k \in 1..n |-> k]

InitDF ==
    /\ \E n \in 1..MaxLen : vec = Iota(n)
    /\ phase = "idle"
    /\ df = NoCursor
    /\ f = NoPred
    /\ mu = NoPred
    /\ uninit = {}
    /\ faults = {}
    /\ calls = <<>>
    /\ yielded = <<>>
    /\ hist = NoHist
    /\ pre = <<>>
    /\ op = "try_from"
    /\ arg = NoArg
    /\ ret = None
    /\ outcome = "ok"

NextDF ==
    \/ DrainFilter
    \/ CallNext
    \/ CallNextBack
    \/ DropCursor

SpecDF == InitDF /\ [][NextDF]_vars

\* ---- the DrainFilter cursor under a predicate that may panic ----
NextUnwind ==
    \/ DrainFilter
    \/ CallNext
    \/ CallNextBack
    \/ CallNextUnwind
    \/ CallNextBackUnwind
    \/ DropCursor

SpecUnwind == InitDF /\ [][NextUnwind]_vars

\* ---- helpers of the properties ----
Range(s) == {s[k] : k \in DOMAIN s}

Count(s, v) == Cardinality({k \in DOMAIN s : s[k] = v})

\* the elements of s by identity, whether the predicate mutated them or not
Ids(s) == [k \in DOMAIN s |-> Id(s[k])]

\* RangeBounds::contains: index k lies in the range given by the two bounds
InRange(sb, eb, k) ==
    /\ CASE sb.kind = "Included" -> sb.v <= k
         [] sb.kind = "Excluded" -> sb.v < k
         [] OTHER -> TRUE
    /\ CASE eb.kind = "Included" -> k <= eb.v
         [] eb.kind = "Excluded" -> k < eb.v
         [] OTHER -> TRUE

\* the cursor was dropped after this driving
Dropped == hist.dropped
ForwardOnlyExhausted == hist.noneFront /\ ~hist.usedBack
BothExhausted == hist.noneFront /\ hist.noneBack

\* the elements of s that satisfy / do not satisfy membership in set S, in order
Keep(s, S) == LET T(v) == v \in S IN SelectSeq(s, T)
Without(s, S) == LET T(v) == v \notin S IN SelectSeq(s, T)

\* ---- C1 ----
\* C1: once the cursor is dropped, after any driving, every original element
\* is in exactly one place: yielded exactly once, or exactly once in the
\* container.
C1_EachElementExactlyOnce ==
    Dropped => \A v \in Range(pre) : Count(Ids(yielded), v) + Count(Ids(vec), v) = Count(pre, v)

\* ---- C2 ----
\* C2: after the cursor is dropped the container has length >= 1, whatever the
\* initial length, the predicate and the driving before the drop.
C2_NonEmptyAfterDrop == Dropped => len(vec) >= 1

\* the always-true predicate driven to exhaustion from both ends on 3 or more elements
C2_Witness ==
    /\ Dropped
    /\ BothExhausted
    /\ Len(pre) >= 3
    /\ \A v \in Range(pre) : f[v]
    /\ len(vec) >= 1

\* ---- C3 ----
\* C3: calling next() until it returns None and then dropping yields, in
\* original order, the elements among the first n-1 that satisfy the
\* predicate, and leaves the container holding exactly the non-yielded
\* elements in original order.
C3_ForwardOnlyConsumption ==
    (Dropped /\ ForwardOnlyExhausted) =>
        /\ Ids(yielded) = Keep(SubSeq(pre, 1, Len(pre) - 1), {v \in Vals : f[v]})
        /\ Ids(vec) = Without(pre, Range(Ids(yielded)))

\* ---- C4 ----
\* C4: the predicate is invoked at most old_len - 1 times, never twice on the
\* same original element, never on an element still in the untouched zone
\* [i, r), which always keeps one element; so never at all for length 1.
C4_PredicateCalls ==
    phase = "cursor" =>
        /\ Len(calls) <= df.old_len - 1
        /\ \A a \in DOMAIN calls, b \in DOMAIN calls : calls[a][1] = calls[b][1] => a = b
        /\ \A a \in DOMAIN calls : calls[a][2] = pre[calls[a][1] + 1]
        /\ df.r - df.i >= 1
        /\ \A a \in DOMAIN calls : ~(df.i <= calls[a][1] /\ calls[a][1] < df.r)
        /\ df.old_len = 1 => calls = <<>>

\* driven from both ends until every element but one was classified
C4_Witness ==
    /\ phase = "cursor"
    /\ hist.usedFront /\ hist.usedBack
    /\ df.old_len >= 3
    /\ Len(calls) = df.old_len - 1
    /\ df.r - df.i = 1
    /\ 0 < df.i /\ df.r < df.old_len

\* ---- C5 ----
\* C5: whatever constructors and push, pop, truncate and drain calls came
\* before, the container's length is >= 1, so len() is not zero and first()
\* and last() address existing slots.
C5_LengthAtLeastOne ==
    phase = "idle" =>
        /\ len(vec) >= 1
        /\ 1 \in DOMAIN vec
        /\ (len(vec) - 1) + 1 \in DOMAIN vec
        /\ first(vec) \in Vals /\ last(vec) \in Vals

\* a drain that left a single element of a longer container
C5_Witness ==
    /\ phase = "idle"
    /\ op = "drain" /\ outcome = "ok"
    /\ Len(pre) >= 3
    /\ len(vec) = 1

\* ---- C6 ----
\* C6: pop on length 1 returns None and changes nothing; pop on length n > 1
\* returns the last element and leaves the first n-1 elements in order.
C6_Pop ==
    op = "pop" =>
        IF Len(pre) = 1
        THEN ret = None /\ vec = pre
        ELSE /\ ret = Some(pre[Len(pre)])
             /\ Len(vec) = Len(pre) - 1
             /\ \A k \in 1..(Len(pre) - 1) : vec[k] = pre[k]

\* pop refused on a single element
C6_Witness == op = "pop" /\ Len(pre) = 1 /\ ret = None /\ vec = pre

\* ---- C7 ----
\* C7: drain raises its "must leave at least one element" panic exactly when
\* every index of [0, n) lies in the range, and on that panic the container
\* is unchanged.
C7_DrainPanicsIffCovers ==
    op = "drain" =>
        /\ (outcome = "panic_leave") <=> (\A k \in 0..(Len(pre) - 1) : InRange(arg.sb, arg.eb, k))
        /\ outcome = "panic_leave" => vec = pre

\* the panic on an inclusive end bound at the last index
C7_Witness ==
    /\ op = "drain"
    /\ outcome = "panic_leave"
    /\ Len(pre) >= 2
    /\ arg.eb = Included(Len(pre) - 1)
    /\ vec = pre

\* ---- C8 ----
\* C8: for an in-bounds range [s, e), s <= e <= n, that leaves an index
\* outside, drain yields the elements at s..e in order and leaves those at
\* [0, s) followed by [e, n).
C8_DrainYieldsRange ==
    LET n == Len(pre)
        s == range_start(arg.sb)
        e == range_end(arg.eb, n)
    IN  (op = "drain" /\ s <= e /\ e <= n /\ (s > 0 \/ e < n)) =>
            /\ outcome = "ok"
            /\ yielded = [k \in 1..(e - s) |-> pre[s + k]]
            /\ vec = [k \in 1..(n - (e - s)) |-> IF k <= s THEN pre[k] ELSE pre[k + (e - s)]]

\* drain(1..) on three or more elements: everything but the first is yielded
C8_Witness ==
    /\ op = "drain" /\ outcome = "ok"
    /\ arg.sb = Included(1) /\ arg.eb = Unbounded
    /\ Len(pre) >= 3
    /\ vec = <<pre[1]>>
    /\ Len(yielded) = Len(pre) - 1

\* ---- C9 ----
\* C9: try_from returns Ok iff the input is non-empty and the EmptyError value
\* (no panic, no container) for the empty input; on success the container is
\* the input, with its length, and is_empty() is false.
C9_TryFrom ==
    op = "try_from" =>
        /\ (outcome = "ok") <=> (arg.xs # <<>>)
        /\ arg.xs = <<>> => (outcome = "err_empty" /\ phase = "none")
        /\ outcome = "ok" =>
              /\ phase = "idle"
              /\ vec = arg.xs
              /\ len(vec) = Len(arg.xs)
              /\ ~is_empty(vec)

\* the empty input was refused with EmptyError
C9_Witness == op = "try_from" /\ arg.xs = <<>> /\ outcome = "err_empty" /\ phase = "none"

BackwardOnlyExhausted == hist.noneBack /\ ~hist.usedFront

\* the sequence s in reverse order
Reverse(s) == [k \in DOMAIN s |-> s[Len(s) + 1 - k]]

\* C11: calling next_back() until it returns None and then dropping yields,
\* in reverse original order, the elements among the last n-1 that satisfy
\* the predicate, and leaves the container holding exactly the non-yielded
\* elements in original order.
C11_BackwardOnlyConsumption ==
    (Dropped /\ BackwardOnlyExhausted) =>
        /\ Ids(yielded) = Reverse(Keep(SubSeq(pre, 2, Len(pre)), {v \in Vals : f[v]}))
        /\ Ids(vec) = Without(pre, Range(Ids(yielded)))

\* ---- C12 ----
NeverDriven == ~hist.usedFront /\ ~hist.usedBack

\* C12: a cursor created and dropped without a call of next() or next_back()
\* never invokes the predicate and leaves the container as it was.
C12_LazyExecution ==
    (Dropped /\ NeverDriven) =>
        /\ calls = <<>>
        /\ vec = pre
        /\ len(vec) = Len(pre)

\* the always-true, always-mutating predicate on 3 or more elements, never driven
C12_Witness ==
    /\ Dropped
    /\ NeverDriven
    /\ Len(pre) >= 3
    /\ \A v \in Range(pre) : f[v] /\ mu[v]
    /\ vec = pre

\* ---- C13 ----
\* driven by at least one call, none of which returned None
PartlyDriven == (hist.usedFront \/ hist.usedBack) /\ ~hist.noneFront /\ ~hist.noneBack

\* C13: on [1,2,3] with the always-true predicate, dropping a partly driven
\* cursor leaves exactly one element in the container, and every element is
\* owned exactly once (by the caller or by the container).
C13_PartialAlwaysTrue ==
    (Dropped /\ PartlyDriven /\ pre = <<1, 2, 3>> /\ (\A v \in Range(pre) : f[v])) =>
        /\ len(vec) = 1
        /\ \A v \in Range(pre) : Count(Ids(yielded), v) + Count(Ids(vec), v) = 1

\* ---- C14 ----
\* C14: when the drop completes the container's length is the final `left`,
\* which is old_len minus the number of elements yielded.
C14_LengthIsLeft ==
    Dropped =>
        /\ len(vec) = df.left
        /\ df.left = df.old_len - Len(yielded)

\* ---- C15 ----
\* the largest number of elements any further driving can yield
RECURSIVE MaxYieldFrom(_, _, _)
MaxYieldFrom(m, p, g) ==
    LET a == next(m, p, g)
        b == next_back(m, p, g)
        ya == IF a.ret = None THEN 0 ELSE 1 + MaxYieldFrom(a.m, p, g)
        yb == IF b.ret = None THEN 0 ELSE 1 + MaxYieldFrom(b.m, p, g)
    IN  IF ya >= yb THEN ya ELSE yb

\* C15: while the cursor lives, size_hint() is (0, Some(r - i - 1)), the
\* subtraction does not underflow, and no further driving yields more
\* elements than the upper bound.
C15_SizeHint ==
    phase = "cursor" =>
        /\ df.r - df.i >= 1
        /\ size_hint(Machine).lo = 0
        /\ size_hint(Machine).hi = df.r - df.i - 1
        /\ size_hint(Machine).hi >= 0
        /\ MaxYieldFrom(Machine, f, mu) <= size_hint(Machine).hi

\* a cursor driven from both ends whose upper bound can still be reached
C15_Witness ==
    /\ phase = "cursor"
    /\ hist.usedFront /\ hist.usedBack
    /\ yielded # <<>>
    /\ size_hint(Machine).hi >= 1
    /\ MaxYieldFrom(Machine, f, mu) = size_hint(Machine).hi

\* ---- C16 ----
\* the slots of [a, b)
Zone(a, b) == {k \in 0..(MaxLen + 1) : a <= k /\ k < b}

\* C16: while the cursor is driven, 0 <= left <= i < r <= right <= old_len;
\* the moved-out slots are exactly [left, i) and [r, right), so [0, left),
\* [i, r) and [right, old_len) hold valid elements, and [i, r) still holds
\* the elements it held at creation.
C16_ZoneInvariant ==
    phase = "cursor" =>
        /\ 0 <= df.left /\ df.left <= df.i
        /\ df.i < df.r
        /\ df.r <= df.right /\ df.right <= df.old_len
        /\ df.old_len = Len(vec)
        /\ uninit = Zone(df.left, df.i) \cup Zone(df.r, df.right)
        /\ \A k \in Zone(df.i, df.r) : Read(vec, k) = Read(pre, k)
        /\ \A k \in Zone(0, df.left) \cup Zone(df.right, df.old_len) : ~f[Id(Read(vec, k))]

\* elements kept and yielded at the front and yielded at the back: four of the five zones are non-empty
C16_Witness ==
    /\ phase = "cursor"
    /\ 0 < df.left /\ df.left < df.i
    /\ df.i < df.r
    /\ df.r < df.right

\* ---- C17 ----
\* C17: through every driving sequence and both loops of drop, no raw read
\* targets a moved-out slot and no raw write targets a slot that holds a
\* live element.
C17_NoBadAccess == faults = {}

\* ---- C18 ----
\* C18: no call of insert_front or insert_back, from next(), next_back() or
\* the first loop of drop, takes its panic branch.
C18_InsertNeverPanics == outcome \notin {"panic_front", "panic_back"}

\* both insert_front and insert_back have put an element back
C18_Witness ==
    /\ phase = "cursor"
    /\ df.left > 0
    /\ df.right < df.old_len
    /\ hist.usedFront /\ hist.usedBack
    /\ outcome = "ok"

\* ---- C19 ----
\* a call of next() or next_back() on the live cursor
IsCall == phase = "cursor" /\ phase' = "cursor" /\ op' \in {"next", "next_back"}

\* the call returned None, did not invoke the predicate and moved no index
Inert == ret' = None /\ calls' = calls /\ df' = df /\ yielded' = yielded /\ vec' = vec

\* C19: once next() or next_back() has returned None, every later call of
\* either returns None, invokes no predicate and leaves left, i, r, right
\* unchanged; the cursor is in that situation exactly when r - i <= 1: a call
\* made at r - i <= 1 is inert, and a call that returns None ends at
\* r - i <= 1.
C19_Fused ==
    [][IsCall =>
          /\ (hist.noneFront \/ hist.noneBack) => Inert /\ df.r - df.i <= 1
          /\ df.r - df.i <= 1 => Inert
          /\ ret' = None => df'.r - df'.i <= 1]_vars

\* after both directions have returned None, and elements were yielded
\* before, a further next_back() returned None again
C19_Witness ==
    /\ phase = "cursor"
    /\ hist.noneFront /\ hist.noneBack
    /\ op = "next_back" /\ ret = None
    /\ yielded # <<>>
    /\ Len(calls) >= 2
    /\ df.i > 0

\* ---- C20 ----
\* the elements the predicate was called on
Classified == {calls[k][2] : k \in DOMAIN calls}

\* a kept element the predicate mutated is in the container with the mutation
KeptCarryMutation ==
    \A e \in Classified :
        (~f[e] /\ mu[e]) => (Count(vec, Mutated(e)) >= 1 /\ Count(vec, e) = 0)

\* an element the predicate returned true for is not in the container
RemovedAreGone == \A e \in Classified : f[e] => Count(Ids(vec), e) = 0

\* C20: after the cursor is dropped, an element the predicate mutated and
\* kept is in the container with its mutated value, and an element the
\* predicate returned true for is no longer in the container.
C20_MutationKeptRemovedGone == Dropped => (KeptCarryMutation /\ RemovedAreGone)

\* ---- the DrainFilter cursor, its loops one iteration per step ----
\* drain_filter with a predicate that does not mutate: what the predicate
\* writes into an element reaches only the value put back or yielded
\* (call_f), never an index or a loop condition
DrainFilterPure ==
    /\ phase = "idle"
    /\ ~hist.dropped
    /\ \E p \in [Vals -> BOOLEAN] :
         /\ f' = p
         /\ mu' = [v \in Vals |-> FALSE]
         /\ df' = drain_filter_new(vec)
         /\ phase' = "cursor"
         /\ op' = "drain_filter"
         /\ arg' = NoArg
         /\ pre' = vec
         /\ ret' = None
         /\ outcome' = "ok"
         /\ yielded' = <<>>
         /\ calls' = <<>>
         /\ uninit' = {}
         /\ faults' = {}
         /\ hist' = NoHist
         /\ UNCHANGED vec

\* next() is entered
BeginNext ==
    /\ phase = "cursor"
    /\ outcome = "ok"
    /\ phase' = "next"
    /\ op' = "next"
    /\ ret' = None
    /\ hist' = [hist EXCEPT !.usedFront = TRUE, !.calls0 = Len(calls), !.span0 = df.r - df.i]
    /\ UNCHANGED <<vec, df, f, mu, uninit, faults, calls, yielded, pre, arg, outcome>>

\* one iteration of the loop of next()
StepNext ==
    /\ phase = "next"
    /\ LET res == next_iter(Machine, f, mu) IN
         /\ vec' = res.m.items
         /\ df' = Fields(res.m)
         /\ uninit' = res.m.uninit
         /\ faults' = res.m.faults
         /\ calls' = res.m.calls
         /\ outcome' = res.m.panic
         /\ ret' = res.ret
         /\ yielded' = yielded \o res.ret
         /\ phase' = IF res.done THEN "cursor" ELSE "next"
         /\ hist' = [hist EXCEPT !.noneFront = @ \/ (res.done /\ res.ret = None)]
         /\ UNCHANGED <<f, mu, pre, arg, op>>

\* next_back() is entered
BeginNextBack ==
    /\ phase = "cursor"
    /\ outcome = "ok"
    /\ phase' = "next_back"
    /\ op' = "next_back"
    /\ ret' = None
    /\ hist' = [hist EXCEPT !.usedBack = TRUE, !.calls0 = Len(calls), !.span0 = df.r - df.i]
    /\ UNCHANGED <<vec, df, f, mu, uninit, faults, calls, yielded, pre, arg, outcome>>

\* one iteration of the loop of next_back()
StepNextBack ==
    /\ phase = "next_back"
    /\ LET res == next_back_iter(Machine, f, mu) IN
         /\ vec' = res.m.items
         /\ df' = Fields(res.m)
         /\ uninit' = res.m.uninit
         /\ faults' = res.m.faults
         /\ calls' = res.m.calls
         /\ outcome' = res.m.panic
         /\ ret' = res.ret
         /\ yielded' = yielded \o res.ret
         /\ phase' = IF res.done THEN "cursor" ELSE "next_back"
         /\ hist' = [hist EXCEPT !.noneBack = @ \/ (res.done /\ res.ret = None)]
         /\ UNCHANGED <<f, mu, pre, arg, op>>

\* Drop::drop is entered
BeginDrop ==
    /\ phase = "cursor"
    /\ phase' = "drop1"
    /\ op' = "drop"
    /\ ret' = None
    /\ hist' = [hist EXCEPT !.span0 = df.r - df.i]
    /\ UNCHANGED <<vec, df, f, mu, uninit, faults, calls, yielded, pre, arg, outcome>>

\* one test-and-body of the first loop of drop
StepDropUnsearched ==
    /\ phase = "drop1"
    /\ LET res == drop_unsearched_iter(Machine) IN
         /\ vec' = res.m.items
         /\ df' = Fields(res.m)
         /\ uninit' = res.m.uninit
         /\ faults' = res.m.faults
         /\ outcome' = res.m.panic
         /\ phase' = IF res.done THEN "drop2" ELSE "drop1"
         /\ hist' = IF res.done
                    THEN [hist EXCEPT !.back0 = df.old_len - df.right]
                    ELSE [hist EXCEPT !.n1 = @ + 1]
         /\ UNCHANGED <<f, mu, calls, yielded, pre, arg, op, ret>>

\* one test of the second loop of drop, and its body or the end of drop
StepDropBack ==
    /\ phase = "drop2"
    /\ IF drop_back_items_cond(Machine)
       THEN LET m == drop_back_items_iter(Machine) IN
            /\ vec' = m.items
            /\ df' = Fields(m)
            /\ uninit' = m.uninit
            /\ faults' = m.faults
            /\ hist' = [hist EXCEPT !.n2 = @ + 1]
            /\ UNCHANGED phase
       ELSE /\ vec' = SubSeq(vec, 1, vec_len_after_drop(Machine))
            /\ phase' = "idle"
            /\ hist' = [hist EXCEPT !.dropped = TRUE]
            /\ UNCHANGED <<df, uninit, faults>>
    /\ UNCHANGED <<f, mu, calls, yielded, pre, arg, op, ret, outcome>>

LoopStep == StepNext \/ StepNextBack \/ StepDropUnsearched \/ StepDropBack

NextSteps ==
    \/ DrainFilterPure
    \/ BeginNext
    \/ StepNext
    \/ BeginNextBack
    \/ StepNextBack
    \/ BeginDrop
    \/ StepDropUnsearched
    \/ StepDropBack

\* A call that was entered keeps running: the code is synchronous and
\* nothing preempts a loop.  Nothing obliges the caller to call or to drop.
SpecSteps == InitDF /\ [][NextSteps]_vars /\ WF_vars(LoopStep)

\* ---- C21 ----
\* the cursor was dropped by the unwinding of a predicate panic
Unwound == hist.dropped /\ hist.unwound # None

\* the slots of the container that hold element e and are not moved-out
LiveSlots(e) == {k \in DOMAIN vec : (k - 1) \notin uninit /\ Id(vec[k]) = e}

\* C21: after the predicate panicked inside next() or next_back() and the
\* unwinding dropped the cursor, the container is non-empty and holds exactly
\* once every original element that was not yielded before the panic, the
\* element whose classification was interrupted included.
C21_UnwindKeepsElements ==
    Unwound =>
        /\ Len(vec) >= 1
        /\ \A e \in Range(pre) :
               Count(Ids(yielded), e) = 0 => Cardinality(LiveSlots(e)) = 1

\* ---- C22 ----
InCall == phase \in {"next", "next_back"}
InDrop == phase \in {"drop1", "drop2"}

\* predicate invocations of the running (or last) call
Invocations == Len(calls) - hist.calls0

\* inside a call and after it returned: every iteration invoked the predicate
\* once and took one element off [i, r), and at most r - i - 1 (at entry)
\* invocations were made
CallBound ==
    (op \in {"next", "next_back"}) =>
        /\ Invocations <= hist.span0 - 1
        /\ df.r - df.i = hist.span0 - Invocations

\* inside drop and after it: the first loop ran at most r - i - 1 (at entry)
\* times, the second loop one time per slot of [right, old_len), and after
\* drop exactly old_len - right (at its entry) times, with right = old_len
DropBound ==
    (op = "drop") =>
        /\ hist.n1 <= hist.span0 - 1
        /\ phase = "drop1" => (df.r - df.i = hist.span0 - hist.n1 /\ hist.n2 = 0)
        /\ phase \in {"drop2", "idle"} => df.right = df.old_len - hist.back0 + hist.n2
        /\ phase = "idle" => (hist.n2 = hist.back0 /\ df.right = df.old_len)

\* C22: every call of next() or next_back() returns, after at most r - i - 1
\* predicate invocations, each iteration shrinking [i, r) by one; drop
\* terminates, its first loop running at most r - i - 1 times and its second
\* loop exactly old_len - right times, ending with right = old_len.
C22_Termination ==
    /\ [](CallBound /\ DropBound)
    /\ InCall ~> (phase = "cursor")
    /\ InDrop ~> (phase = "idle" /\ hist.dropped)

\* a call that invoked the predicate twice was followed by a drop whose two
\* loops both ran
C22_Witness ==
    /\ phase = "idle" /\ hist.dropped
    /\ Invocations >= 2
    /\ hist.n1 >= 1
    /\ hist.n2 >= 1
    /\ yielded # <<>>

====
